---------------------------- MODULE Spec2Model ----------------------------
(***************************************************************************)
(* A model of onebrc.cpp: the fixed-decimal parser, the record splitter,   *)
(* the statistics record, the memory-mapped input, the chunk partitioning  *)
(* loop of main, the concurrent aggregate() tasks and the reducer loop.    *)
(*                                                                         *)
(* Bytes are their ASCII codes, a string_view is the sequence of the bytes *)
(* it covers, and C++ positions are 0-based (At, Substr, FindFirstOf).     *)
(***************************************************************************)
EXTENDS Integers, Sequences, FiniteSets, TLC

VARIABLES
    \* ---- the run of main (Spec)
    file,        \* the bytes of the input file (the environment)
    n_cpus,      \* thread::hardware_concurrency()
    sysfail,     \* which system call of the construction fails, or "none"
    pc,          \* where main is
    i,           \* main's loop index (partition loop, then reducer loop)
    data_,       \* mmap_file::data_
    input,       \* main's string_view input
    chunk_size,  \* main's chunk_size
    partial,     \* the futures: the task of each chunk
    pending,     \* the keys of the table being drained that are not merged yet
    result,      \* main's ordered_statistics result
    out,         \* the rows written to standard output
    status,      \* running, exit0, terminate (uncaught exception), segv
    \* ---- the parser alone (SpecParse)
    s,           \* the token
    parsed,      \* number(s), once it was called
    \* ---- tables folded apart and merged (SpecMerge)
    tables,      \* one table per group
    single,      \* the one table that folds every record in sequence
    nrecs,       \* the records folded so far
    merging,     \* whether the reducer has started
    todo,        \* the (group, key) entries not merged yet
    merged       \* the reducer's table

vars == <<file, n_cpus, sysfail, pc, i, data_, input, chunk_size, partial,
          pending, result, out, status, s, parsed, tables, single, nrecs,
          merging, todo, merged>>

mainVars == <<file, n_cpus, sysfail, pc, i, data_, input, chunk_size, partial,
              pending, result, out, status>>
parseVars == <<s, parsed>>
mergeVars == <<tables, single, nrecs, merging, todo, merged>>

---------------------------------------------------------------------------
\* Bounds of the model.

\* The largest worker count.
MaxW == 3
\* The largest number of tokens a file is made of.
MaxTokens == 3
\* The longest token handed to number().
MaxStrLen == 6
\* The largest number of records folded in SpecMerge.
MaxRecs == 3
\* The largest number of groups in SpecMerge.
MaxGroups == 2

---------------------------------------------------------------------------
\* Bytes the program names.

CharNL == 10
CharSemi == 59
CharMinus == 45
CharDot == 46
Char0 == 48
Char9 == 57

\* size_t is held in SizeBits bits: TLC's integers are 32 bits wide, so the
\* width is narrowed from 64; every length of the model is far below 2^SizeBits
\* and the one wrap-around that happens, npos + 1, happens as in 64 bits.
SizeBits == 30
SizeMod == 2 ^ SizeBits
\* string_view::npos, size_type(-1)
Npos == SizeMod - 1
SizeAdd(a, b) == (a + b) % SizeMod

\* numeric_limits<int64_t>::max() and ::min(), narrowed to TLC's integers;
\* like the originals they lie beyond every value and every sum of the model.
Int64Max == 2147483647
Int64Min == -2147483647

---------------------------------------------------------------------------
\* string_view.

At(sv, k) == sv[k + 1]

Min2(a, b) == IF a < b THEN a ELSE b

\* sv.substr(pos, n) for pos <= sv.size(); a larger pos throws out_of_range,
\* which the callers decide with SubstrThrows.
Substr(sv, pos, n) == SubSeq(sv, pos + 1, pos + Min2(n, Len(sv) - pos))

SubstrFrom(sv, pos) == Substr(sv, pos, Len(sv) - pos)

SubstrThrows(sv, pos) == pos > Len(sv)

\* sv.find_first_of(c, pos): the first position >= pos holding c, or npos.
FindFirstOf(sv, c, pos) ==
    LET hits == {k \in 0..(Len(sv) - 1) : k >= pos /\ At(sv, k) = c}
    IN  IF hits = {} THEN Npos
        ELSE CHOOSE k \in hits : \A j \in hits : k <= j

---------------------------------------------------------------------------
\* Parsing. A call either returns a value or throws invalid_argument.

Throw == [exc |-> TRUE, val |-> 0]
Ret(v) == [exc |-> FALSE, val |-> v]

\* A plausible slip: only the lower end of the digit range is tested.
DigitNoUpper(c) == IF c < Char0 THEN Throw ELSE Ret(c - Char0)

digit(c) == IF c < Char0 \/ c > Char9 THEN Throw ELSE Ret(c - Char0)

non_neg_number(sv) ==
    IF Len(sv) = 3 /\ At(sv, 1) = CharDot
    THEN LET a == digit(At(sv, 0))
             b == digit(At(sv, 2))
         IN  IF a.exc \/ b.exc THEN Throw ELSE Ret(a.val * 10 + b.val)
    ELSE IF Len(sv) = 4 /\ At(sv, 2) = CharDot
    THEN LET a == digit(At(sv, 0))
             b == digit(At(sv, 1))
             c == digit(At(sv, 3))
         IN  IF a.exc \/ b.exc \/ c.exc THEN Throw
             ELSE Ret(a.val * 100 + b.val * 10 + c.val)
    ELSE Throw

number(sv) ==
    IF sv # <<>> /\ At(sv, 0) = CharMinus
    THEN LET r == non_neg_number(SubstrFrom(sv, 1))
         IN  IF r.exc THEN Throw ELSE Ret(-r.val)
    ELSE non_neg_number(sv)

\* record(s): the key and the value, or a throw.
ThrowRec == [exc |-> TRUE, name |-> <<>>, val |-> 0]

record(sv) ==
    LET k == FindFirstOf(sv, CharSemi, 0)
    IN  IF k # Npos
        THEN LET v == number(SubstrFrom(sv, k + 1))
             IN  IF v.exc THEN ThrowRec
                 ELSE [exc |-> FALSE, name |-> Substr(sv, 0, k), val |-> v.val]
        ELSE ThrowRec

\* first_line(s): the first line and the other lines.
first_line(sv) ==
    LET k == FindFirstOf(sv, CharNL, 0)
    IN  IF k # Npos
        THEN [line |-> Substr(sv, 0, k), other |-> SubstrFrom(sv, k + 1)]
        ELSE [line |-> sv, other |-> <<>>]

---------------------------------------------------------------------------
\* statistics, and the two tables.

\* statistics(): the default member initializers.
DefaultStats == [min |-> Int64Max, max |-> Int64Min, sum |-> 0, n |-> 0]

\* statistics(int64_t x)
StatsOf(x) == [min |-> x, max |-> x, sum |-> x, n |-> 1]

\* A plausible slip: the count is bumped by one, not by the other's count.
UpdateCountsOne(a, b) ==
    [min |-> IF b.min < a.min THEN b.min ELSE a.min,
     max |-> IF b.max > a.max THEN b.max ELSE a.max,
     sum |-> a.sum + b.sum,
     n   |-> a.n + 1]

\* a.update(b)
Update(a, b) ==
    [min |-> IF b.min < a.min THEN b.min ELSE a.min,
     max |-> IF b.max > a.max THEN b.max ELSE a.max,
     sum |-> a.sum + b.sum,
     n   |-> a.n + b.n]

EmptyTable == [k \in {} |-> DefaultStats]

\* result[name].update(value): operator[] default-constructs a missing entry,
\* and the int64_t converts to statistics(value).
TableUpdate(t, name, value) ==
    LET cur == IF name \in DOMAIN t THEN t[name] ELSE DefaultStats
    IN  (name :> Update(cur, StatsOf(value))) @@ t

\* A plausible slip: an entry found in the result is overwritten.
ReduceItemOverwrite(res, key, st) == (key :> st) @@ res

\* The body of the reducer loop: find, then update or insert.
ReduceItem(res, key, st) ==
    IF key \in DOMAIN res
    THEN [res EXCEPT ![key] = Update(@, st)]
    ELSE (key :> st) @@ res

---------------------------------------------------------------------------
\* The fixed-decimal grammar ['-'] D{1,2} '.' D, as a reference.

IsDigit(c) == c \in Char0..Char9

\* The shapes the grammar generates: with or without the sign, one or two
\* integer digits.
Shapes == {[sign |-> sg, int |-> m] : sg \in {0, 1}, m \in {1, 2}}

HasShape(sv, sh) ==
    /\ Len(sv) = sh.sign + sh.int + 2
    /\ sh.sign = 1 => sv[1] = CharMinus
    /\ \A j \in 1..sh.int : IsDigit(sv[sh.sign + j])
    /\ sv[sh.sign + sh.int + 1] = CharDot
    /\ IsDigit(sv[sh.sign + sh.int + 2])

InGrammar(sv) == \E sh \in Shapes : HasShape(sv, sh)

\* The decimal value of a sequence of digits.
RECURSIVE DecimalOf(_)
DecimalOf(ds) ==
    IF ds = <<>> THEN 0
    ELSE 10 * DecimalOf(SubSeq(ds, 1, Len(ds) - 1)) + (ds[Len(ds)] - Char0)

\* Ten times the value a string of the grammar denotes.
GrammarValue(sv) ==
    LET neg == sv[1] = CharMinus
        digits == SelectSeq(sv, IsDigit)
    IN  IF neg THEN -DecimalOf(digits) ELSE DecimalOf(digits)

---------------------------------------------------------------------------
\* SpecParse: number() on every token over ParseAlphabet up to MaxStrLen.

\* '0' '3' '9', '-' '+' '.', 'a'
ParseAlphabet == {48, 51, 57, 45, 43, 46, 97}

MainIdle ==
    /\ file = <<>> /\ n_cpus = 1 /\ sysfail = "none" /\ pc = "idle" /\ i = 0
    /\ data_ = "null" /\ input = <<>> /\ chunk_size = 0 /\ partial = <<>>
    /\ pending = {} /\ result = EmptyTable /\ out = <<>> /\ status = "idle"

ParseIdle == s = <<>> /\ parsed = Throw

MergeIdle ==
    /\ tables = <<>> /\ single = EmptyTable /\ nrecs = 0
    /\ merging = FALSE /\ todo = {} /\ merged = EmptyTable

InitParse ==
    /\ s = <<>>
    /\ parsed = number(<<>>)
    /\ MainIdle
    /\ MergeIdle

\* The token grows by one byte and number() is called on it.
ParseToken(c) ==
    /\ Len(s) < MaxStrLen
    /\ s' = Append(s, c)
    /\ parsed' = number(s')
    /\ UNCHANGED <<mainVars, mergeVars>>

NextParse == \E c \in ParseAlphabet : ParseToken(c)

SpecParse == InitParse /\ [][NextParse]_vars

---------------------------------------------------------------------------
\* SpecMerge: records folded into one table per group and into one single
\* table, and the group tables merged by the reducer loop in any order.

\* "A", "B"
MergeKeys == {<<65>>, <<66>>}
MergeValues == {-34, 0, 123}
Groups == 1..MaxGroups

InitMerge ==
    /\ tables = [g \in Groups |-> EmptyTable]
    /\ single = EmptyTable
    /\ nrecs = 0
    /\ merging = FALSE
    /\ todo = {}
    /\ merged = EmptyTable
    /\ MainIdle
    /\ ParseIdle

\* The next record goes to group g: aggregate()'s result[name].update(value),
\* in the group's table and in the single table.
Fold(g, key, value) ==
    /\ ~merging
    /\ nrecs < MaxRecs
    /\ tables' = [tables EXCEPT ![g] = TableUpdate(@, key, value)]
    /\ single' = TableUpdate(single, key, value)
    /\ nrecs' = nrecs + 1
    /\ UNCHANGED <<merging, todo, merged, mainVars, parseVars>>

\* The reducer starts with an empty result.
StartMerge ==
    /\ ~merging
    /\ merging' = TRUE
    /\ todo' = {<<g, k>> : g \in Groups, k \in MergeKeys} \cap
               {e \in Groups \X MergeKeys : e[2] \in DOMAIN tables[e[1]]}
    /\ merged' = EmptyTable
    /\ UNCHANGED <<tables, single, nrecs, mainVars, parseVars>>

\* One pass of the reducer loop's body, on any entry not merged yet.
MergeEntry(e) ==
    /\ merging
    /\ e \in todo
    /\ merged' = ReduceItem(merged, e[2], tables[e[1]][e[2]])
    /\ todo' = todo \ {e}
    /\ UNCHANGED <<tables, single, nrecs, merging, mainVars, parseVars>>

NextMerge ==
    \/ \E g \in Groups, key \in MergeKeys, value \in MergeValues :
          Fold(g, key, value)
    \/ StartMerge
    \/ \E e \in Groups \X MergeKeys : MergeEntry(e)

SpecMerge == InitMerge /\ [][NextMerge]_vars

---------------------------------------------------------------------------
\* Spec: one run of main on a file made of up to MaxTokens tokens, with
\* 1..MaxW workers.

\* "A;1.2\n", "B;-3.4\n", "A;-12.3\n", "B;0.5" (no newline: a well-formed
\* last line, or the head of a malformed one), "\n" (an empty line), "x".
Tokens ==
    { <<65, 59, 49, 46, 50, 10>>,
      <<66, 59, 45, 51, 46, 52, 10>>,
      <<65, 59, 45, 49, 50, 46, 51, 10>>,
      <<66, 59, 48, 46, 53>>,
      <<10>>,
      <<120>> }

RECURSIVE FilesOf(_)
FilesOf(n) ==
    IF n = 0 THEN {<<>>}
    ELSE LET shorter == FilesOf(n - 1)
         IN  shorter \cup {f \o t : f \in shorter, t \in Tokens}

Files == FilesOf(MaxTokens)

\* A default-constructed future, and the future of async(launch::async,
\* aggregate, view): the task's range, what is left of it, and its table.
NoFuture == [state |-> "none", chunk |-> <<>>, rest |-> <<>>, table |-> EmptyTable]

Launch(view) ==
    [state |-> "running", chunk |-> view, rest |-> view, table |-> EmptyTable]

\* mmap() of a zero-length file fails (EINVAL); any call may fail otherwise.
Init ==
    /\ file \in Files
    /\ n_cpus \in 1..MaxW
    /\ sysfail \in (IF file = <<>> THEN {} ELSE {"none"}) \cup {"open", "fstat", "mmap"}
    /\ pc = "open"
    /\ i = 0
    /\ data_ = "null"
    /\ input = <<>>
    /\ chunk_size = 0
    /\ partial = [k \in 1..n_cpus |-> NoFuture]
    /\ pending = {}
    /\ result = EmptyTable
    /\ out = <<>>
    /\ status = "running"
    /\ ParseIdle
    /\ MergeIdle

\* file_descr(path): open() returning -1 throws runtime_error, which nothing
\* catches.
OpenFile ==
    /\ status = "running" /\ pc = "open"
    /\ IF sysfail = "open"
       THEN status' = "terminate" /\ pc' = pc
       ELSE status' = status /\ pc' = "map"
    /\ UNCHANGED <<file, n_cpus, sysfail, i, data_, input, chunk_size, partial,
                   pending, result, out, parseVars, mergeVars>>

\* What mmap() returns: MAP_FAILED, (void*) -1, when it fails.
MmapReturn == IF sysfail = "mmap" THEN "MAP_FAILED" ELSE "mapped"

\* The test a repaired constructor would make.
MapFailureSeenFixed(d) == d \in {"null", "MAP_FAILED"}

\* if (!data_): the constructor's test of mmap()'s return value.
MapFailureSeen(d) == d = "null"

\* mmap_file(fd): fstat, mmap, and the test of data_.
MapFile ==
    /\ status = "running" /\ pc = "map"
    /\ IF sysfail = "fstat"
       THEN status' = "terminate" /\ pc' = pc /\ data_' = data_
       ELSE /\ data_' = MmapReturn
            /\ IF MapFailureSeen(data_')
               THEN status' = "terminate" /\ pc' = pc
               ELSE status' = status /\ pc' = "view"
    /\ UNCHANGED <<file, n_cpus, sysfail, i, input, chunk_size, partial,
                   pending, result, out, parseVars, mergeVars>>

\* string_view input { file }; chunk_size = input.size() / n_cpus; the array
\* of futures; and the first test of the partition loop.
TakeView ==
    /\ status = "running" /\ pc = "view"
    /\ input' = file
    /\ chunk_size' = Len(file) \div n_cpus
    /\ i' = 0
    /\ pc' = IF 0 < n_cpus - 1 THEN "partition" ELSE "last"
    /\ UNCHANGED <<file, n_cpus, sysfail, data_, partial, pending, result, out,
                   status, parseVars, mergeVars>>

\* Reading a byte of the view dereferences data_.
Readable == data_ = "mapped"

\* A plausible slip: "not found" taken as the end of the view.
ChunkEndSaturating(view, size) ==
    LET k == FindFirstOf(view, CharNL, size)
    IN  SizeAdd(IF k = Npos THEN Len(view) ELSE k, 1)

\* A plausible slip: the cut is made at the target offset, with no search.
ChunkEndAtTarget(view, size) == Min2(size, Len(view))

\* chunk_end = input.find_first_of('\n', chunk_size) + 1
ChunkEnd(view, size) == SizeAdd(FindFirstOf(view, CharNL, size), 1)

\* A plausible slip: the task is handed the whole remaining view.
ChunkViewWhole(view, chunk_end) == view

\* input.substr(0, chunk_end)
ChunkView(view, chunk_end) == Substr(view, 0, chunk_end)

\* One pass of the partition loop: the cut, the launch of the task and the
\* rest kept as input. find_first_of reads the view from chunk_size on.
PartitionStep ==
    /\ status = "running" /\ pc = "partition"
    /\ IF chunk_size < Len(input) /\ ~Readable
       THEN /\ status' = "segv"
            /\ UNCHANGED <<pc, i, input, partial>>
       ELSE LET chunk_end == ChunkEnd(input, chunk_size)
            IN  /\ partial' = [partial EXCEPT ![i + 1] = Launch(ChunkView(input, chunk_end))]
                /\ IF SubstrThrows(input, chunk_end)
                   THEN status' = "terminate" /\ UNCHANGED <<pc, i, input>>
                   ELSE /\ input' = SubstrFrom(input, chunk_end)
                        /\ i' = i + 1
                        /\ pc' = IF i + 1 < n_cpus - 1 THEN "partition" ELSE "last"
                        /\ status' = status
    /\ UNCHANGED <<file, n_cpus, sysfail, data_, chunk_size, pending, result,
                   out, parseVars, mergeVars>>

\* partial[n_cpus - 1] = async(launch::async, aggregate, input)
LaunchLast ==
    /\ status = "running" /\ pc = "last"
    /\ partial' = [partial EXCEPT ![n_cpus] = Launch(input)]
    /\ i' = 0
    /\ pc' = "get"
    /\ UNCHANGED <<file, n_cpus, sysfail, data_, input, chunk_size, pending,
                   result, out, status, parseVars, mergeVars>>

\* One test of aggregate()'s loop and, when it passes, one pass of its body;
\* a throw of record() ends the task with the exception stored.
AggregateIter(t) ==
    IF t.rest = <<>>
    THEN [t EXCEPT !.state = "ready"]
    ELSE LET fl == first_line(t.rest)
             r == record(fl.line)
         IN  IF r.exc
             THEN [t EXCEPT !.state = "error"]
             ELSE [t EXCEPT !.rest = fl.other,
                            !.table = TableUpdate(@, r.name, r.val)]

\* aggregate(view) run to its end.
RECURSIVE AggregateRun(_)
AggregateRun(t) == IF t.state # "running" THEN t ELSE AggregateRun(AggregateIter(t))

\* A step of the task of chunk w; reading a line of a view whose mapping
\* failed is a read through (char*) -1, which ends the process.
AggregateStep(w) ==
    /\ status = "running"
    /\ partial[w].state = "running"
    /\ IF partial[w].rest # <<>> /\ ~Readable
       THEN status' = "segv" /\ partial' = partial
       ELSE status' = status /\ partial' = [partial EXCEPT ![w] = AggregateIter(@)]
    /\ UNCHANGED <<file, n_cpus, sysfail, pc, i, data_, input, chunk_size,
                   pending, result, out, parseVars, mergeVars>>

\* A plausible slip: the result is taken without waiting for the task.
FutureReadyNoWait(f) == f.state # "none"

\* future::get() returns once the task has ended.
FutureReady(f) == f.state \in {"ready", "error"}

\* A plausible slip: the task's exception is swallowed.
GetNeverThrows(f) == FALSE

\* future::get() rethrows the exception the task ended with.
GetThrows(f) == f.state = "error"

\* Where main goes once part i + 1 is drained.
AfterPart(k) == IF k < n_cpus THEN "get" ELSE "print"

\* part.get() for part i + 1: blocks until the task has ended, rethrows its
\* exception, else starts the iteration over its table.
Collect ==
    /\ status = "running" /\ pc = "get"
    /\ FutureReady(partial[i + 1])
    /\ IF GetThrows(partial[i + 1])
       THEN status' = "terminate" /\ UNCHANGED <<pc, i, pending>>
       ELSE /\ status' = status
            /\ pending' = DOMAIN partial[i + 1].table
            /\ IF pending' = {}
               THEN i' = i + 1 /\ pc' = AfterPart(i + 1)
               ELSE i' = i /\ pc' = "merge"
    /\ UNCHANGED <<file, n_cpus, sysfail, data_, input, chunk_size, partial,
                   result, out, parseVars, mergeVars>>

\* One pass of the inner reducer loop, on the item the unordered_map's
\* iteration yields next (any of those left).
MergeItem(k) ==
    /\ status = "running" /\ pc = "merge"
    /\ k \in pending
    /\ result' = ReduceItem(result, k, partial[i + 1].table[k])
    /\ pending' = pending \ {k}
    /\ IF pending' = {}
       THEN i' = i + 1 /\ pc' = AfterPart(i + 1)
       ELSE i' = i /\ pc' = pc
    /\ UNCHANGED <<file, n_cpus, sysfail, data_, input, chunk_size, partial,
                   out, status, parseVars, mergeVars>>

\* string_view's operator<: byte-wise lexicographic.
LexLess(a, b) ==
    \E k \in 0..Min2(Len(a), Len(b)) :
        /\ \A j \in 1..k : a[j] = b[j]
        /\ \/ (k = Len(a) /\ k < Len(b))
           \/ (k < Len(a) /\ k < Len(b) /\ a[k + 1] < b[k + 1])

\* The keys of a std::map in its iteration order.
RECURSIVE SortedKeys(_)
SortedKeys(ks) ==
    IF ks = {} THEN <<>>
    ELSE LET m == CHOOSE k \in ks : \A o \in ks \ {k} : LexLess(k, o)
         IN  <<m>> \o SortedKeys(ks \ {m})

\* One pass of the report loop: the next row of result goes to cout.
PrintRow ==
    /\ status = "running" /\ pc = "print"
    /\ Len(out) < Cardinality(DOMAIN result)
    /\ LET k == SortedKeys(DOMAIN result)[Len(out) + 1]
       IN  out' = Append(out, <<k, result[k]>>)
    /\ UNCHANGED <<file, n_cpus, sysfail, pc, i, data_, input, chunk_size,
                   partial, pending, result, status, parseVars, mergeVars>>

\* return 0
Return ==
    /\ status = "running" /\ pc = "print"
    /\ Len(out) = Cardinality(DOMAIN result)
    /\ status' = "exit0"
    /\ pc' = "done"
    /\ UNCHANGED <<file, n_cpus, sysfail, i, data_, input, chunk_size, partial,
                   pending, result, out, parseVars, mergeVars>>

Next ==
    \/ OpenFile
    \/ MapFile
    \/ TakeView
    \/ PartitionStep
    \/ LaunchLast
    \/ \E w \in 1..MaxW : w <= n_cpus /\ AggregateStep(w)
    \/ Collect
    \/ \E k \in DOMAIN result \cup pending : MergeItem(k)
    \/ PrintRow
    \/ Return

Spec == Init /\ [][Next]_vars

---------------------------------------------------------------------------
\* What the claims speak of.

\* The input format: every line is <key>;<value> with the value in the
\* grammar; the last line may lack its '\n'.
LineStarts(f) ==
    {a \in 1..Len(f) : a = 1 \/ f[a - 1] = CharNL}

LineAt(f, a) ==
    LET ends == {e \in a..Len(f) : f[e] = CharNL}
        e == IF ends = {} THEN Len(f) + 1
             ELSE CHOOSE x \in ends : \A y \in ends : x <= y
    IN  SubSeq(f, a, e - 1)

WellFormedLine(l) ==
    \E k \in 1..Len(l) :
        /\ l[k] = CharSemi
        /\ \A j \in 1..(k - 1) : l[j] # CharSemi
        /\ InGrammar(SubSeq(l, k + 1, Len(l)))

WellFormed(f) == \A a \in LineStarts(f) : WellFormedLine(LineAt(f, a))

NumLines(f) == Cardinality(LineStarts(f))

Launched(k) == partial[k].state # "none"

\* The task of chunk k has taken a step of aggregate().
Began(k) ==
    \/ partial[k].state \in {"ready", "error"}
    \/ partial[k].state = "running" /\ partial[k].rest # partial[k].chunk

\* The chunks 1..k, end to end.
RECURSIVE ConcatChunks(_)
ConcatChunks(k) ==
    IF k = 0 THEN <<>> ELSE ConcatChunks(k - 1) \o partial[k].chunk

IsPrefix(a, b) == Len(a) <= Len(b) /\ SubSeq(b, 1, Len(a)) = a

IsSuffix(a, b) == Len(a) <= Len(b) /\ SubSeq(b, Len(b) - Len(a) + 1, Len(b)) = a

\* What was left of the file when chunk k was cut.
RemAt(k) == SubSeq(file, Len(ConcatChunks(k - 1)) + 1, Len(file))

\* The search from the target offset finds no newline in rem.
NoNewlineFrom(rem) == \A j \in 1..Len(rem) : j > chunk_size => rem[j] # CharNL

EndsWithNL(c) == c # <<>> /\ c[Len(c)] = CharNL

\* The chunks cut by the partition loop (all but the last one).
FirstCuts == {k \in 1..(n_cpus - 1) : Launched(k)}

Partitioned == pc \in {"get", "merge", "print", "done"}

\* The table and the report of a run with one worker: aggregate() over the
\* whole file, whose entries the reducer inserts into the empty result.
SingleWorkerTable(f) == AggregateRun(Launch(f)).table

ReportOf(t) ==
    LET ks == SortedKeys(DOMAIN t)
    IN  [j \in 1..Len(ks) |-> <<ks[j], t[ks[j]]>>]

---------------------------------------------------------------------------
\* C1: on a well-formed file no task throws, and for every worker count and
\* every interleaving the result table and the report are those of the run
\* with one worker.
C1_WorkerCountInvariance ==
    WellFormed(file) =>
        /\ \A k \in 1..n_cpus : partial[k].state # "error"
        /\ status = "terminate" => pc \in {"open", "map"}
        /\ pc \in {"print", "done"} => result = SingleWorkerTable(file)
        /\ status = "exit0" => out = ReportOf(SingleWorkerTable(file))

\* Three workers ended a well-formed file in which one key came from two
\* chunks, and two rows were reported.
C1_Witness ==
    /\ status = "exit0" /\ n_cpus = 3 /\ WellFormed(file)
    /\ Len(out) = 2
    /\ \E k \in DOMAIN result :
          /\ k \in DOMAIN partial[1].table
          /\ k \in DOMAIN partial[2].table

\* C3: while the partition loop runs, the chunks cut so far followed by the
\* rest are the file; after it there are exactly n_cpus chunks whose
\* concatenation is the file; and no cut lies beyond the rest (substr never
\* throws out_of_range).
C3_ChunkCoverage ==
    /\ pc \in {"partition", "last"} => ConcatChunks(i) \o input = file
    /\ Partitioned =>
          /\ \A k \in 1..n_cpus : Launched(k)
          /\ ConcatChunks(n_cpus) = file
    /\ ~(pc = "partition" /\ status = "terminate")

\* Three chunks were cut, the second one empty because the search found no
\* newline (npos + 1 wrapped to 0), the third one holding the rest.
C3_Witness ==
    /\ Partitioned /\ n_cpus = 3
    /\ partial[1].chunk # <<>>
    /\ partial[2].chunk = <<>>
    /\ partial[3].chunk # <<>>

C6_MalformedAborts ==
    ~WellFormed(file) =>
        /\ out = <<>>
        /\ pc \notin {"print", "done"}
        /\ status # "exit0"
        /\ \A k \in 1..n_cpus :
              /\ (pc \in {"get", "merge"} /\ k <= i) =>
                    partial[k].state = "ready"
              /\ partial[k].state = "ready" => WellFormed(partial[k].chunk)
              /\ partial[k].state = "error" => ~WellFormed(partial[k].chunk)
        /\ (status = "terminate" /\ pc = "get") => partial[i + 1].state = "error"

\* Main was terminated when it collected a later task's error, after it had
\* merged an earlier part; nothing was written.
C6_Witness ==
    /\ status = "terminate" /\ pc = "get" /\ i >= 1
    /\ partial[i + 1].state = "error"
    /\ result # EmptyTable
    /\ out = <<>>

\* C7: when open, fstat or mmap fails, main gets no further than the
\* construction: no view is taken, no chunk cut, no task launched.
C7_MapFailureIsFatal ==
    sysfail # "none" =>
        /\ pc \in {"open", "map"}
        /\ \A k \in 1..n_cpus : ~Launched(k)

\* C8: a task with an empty chunk never throws and its table is empty; the
\* zero-length file (open and fstat succeeding) ends in no error, with every
\* table and the result empty and nothing written; a well-formed file with
\* fewer lines than workers ends in no error.
C8_EmptyAndShortInputs ==
    /\ \A k \in 1..n_cpus :
          (Launched(k) /\ partial[k].chunk = <<>>) =>
              /\ partial[k].state \in {"running", "ready"}
              /\ partial[k].table = EmptyTable
    /\ (file = <<>> /\ sysfail = "mmap") =>
          /\ status \in {"running", "exit0"}
          /\ \A k \in 1..n_cpus : partial[k].table = EmptyTable
          /\ result = EmptyTable
          /\ out = <<>>
    /\ (WellFormed(file) /\ NumLines(file) < n_cpus /\ sysfail = "none") =>
          /\ status \in {"running", "exit0"}
          /\ \A k \in 1..n_cpus : partial[k].state # "error"

\* The zero-length file was processed by three workers and main returned 0.
C8_Witness ==
    /\ file = <<>> /\ n_cpus = 3 /\ status = "exit0"
    /\ \A k \in 1..n_cpus : partial[k].state = "ready"
    /\ out = <<>>

\* C9, as stated: with two or more workers, main merges nothing before every
\* task has ended.
C9_MergeAfterAllTasks ==
    (n_cpus >= 2 /\ (pc = "merge" \/ result # EmptyTable)) =>
        \A k \in 1..n_cpus : partial[k].state \in {"ready", "error"}

\* C9, amended: main merges the table of part i + 1 only when that task and
\* every task before it has ended without error; later tasks may still run.
C9_MergeAfterOwnTask ==
    /\ pc = "merge" => \A k \in 1..(i + 1) : partial[k].state = "ready"
    /\ pc \in {"get", "merge"} => \A k \in 1..i : partial[k].state = "ready"
    /\ result # EmptyTable => partial[1].state = "ready"

\* Main is merging a part while a later task is still running.
C9_Witness ==
    /\ pc = "merge" /\ status = "running"
    /\ \E k \in (i + 2)..n_cpus : partial[k].state = "running"

\* C10, as stated: with two or more workers, no task has begun aggregating
\* while a chunk boundary is still to be computed.
C10_RangesBeforeAnyTask ==
    (n_cpus >= 2 /\ \E k \in 1..n_cpus : Began(k)) => pc # "partition"

\* C10, amended: a task is launched only once its own range is cut, in index
\* order; the ranges of the launched tasks are consecutive, non-overlapping
\* ranges of the file, and a task reads within its range. Earlier tasks may
\* aggregate while later boundaries are still to be computed.
C10_RangeBeforeOwnTask ==
    /\ pc \in {"open", "map", "view"} => \A k \in 1..n_cpus : ~Launched(k)
    /\ (pc \in {"partition", "last"} /\ status = "running") =>
          \A k \in 1..n_cpus : Launched(k) <=> k <= i
    /\ \A k \in 1..n_cpus :
          Launched(k) =>
              /\ \A j \in 1..(k - 1) : Launched(j)
              /\ IsPrefix(ConcatChunks(k), file)
              /\ IsSuffix(partial[k].rest, partial[k].chunk)

\* The first task has begun aggregating while the partition loop still has
\* a boundary to compute.
C10_Witness ==
    /\ pc = "partition" /\ status = "running"
    /\ Began(1)

---------------------------------------------------------------------------
\* C5: number(s) returns ten times the signed value of s when s is in the
\* grammar ['-'] D{1,2} '.' D, and throws for every other token.
C5_NumberAgreesWithGrammar ==
    IF InGrammar(s)
    THEN ~parsed.exc /\ parsed.val = GrammarValue(s)
    ELSE parsed.exc

\* "-3.9" was parsed to -39.
C5_Witness ==
    /\ s = <<CharMinus, 51, CharDot, Char9>>
    /\ ~parsed.exc
    /\ parsed.val = -39

\* C2: once every entry of every group's table is merged, the reducer's table
\* equals the table that folded all the records in sequence.
C2_MergeEqualsSequential ==
    (merging /\ todo = {}) => merged = single

\* Three records of one key were split over two groups and merged.
C2_Witness ==
    /\ merging /\ todo = {}
    /\ \E k \in MergeKeys :
          /\ \A g \in {1, 2} : k \in DOMAIN tables[g]
          /\ k \in DOMAIN merged
          /\ merged[k].n = 3
          /\ merged[k].min < merged[k].max

===========================================================================
